---- MODULE Spec2Model ----
(***************************************************************************)
(* The valuation engine of the Sapphire Reserve ROI calculator             *)
(* (src/components/SapphireReserveROICalculator.js): validateInputs,       *)
(* isValidResults, totalAnnualSpending, qualifiesForHighSpender and        *)
(* calculateROI, over a model of the JavaScript values they handle.        *)
(*                                                                         *)
(* JavaScript values are records [k, v]:                                   *)
(*   k = "fin"   a finite number of ordinary size, v in units of 1/Scale   *)
(*   k = "huge"  a finite number near the top of the double range, v in    *)
(*               units of 1e302; beyond MaxHuge units it overflows         *)
(*   k = "tiny"  a number other than 0 so close to 0 that adding it to a   *)
(*               number of ordinary size leaves that number as it is, v in *)
(*               units of 1e-304                                           *)
(*   k = "inf"   +Infinity (v = 1) or -Infinity (v = -1)                   *)
(*   k = "nan"   NaN                                                       *)
(*   k = "bool"  true (v = 1) or false (v = 0)                             *)
(*   k = "null", "undef"  null, undefined                                  *)
(*   k = "str"   the string "abc" and what it is concatenated into         *)
(*   k = "obj"   an object; its own properties are the function `fields`   *)
(* Decimal literals of the source (0.0175, 9.99, 0.8 ...) are exact        *)
(* rationals <<p, q>>; rounding in the last bit of a double is not         *)
(* modelled, overflow to Infinity and absorption of small addends by huge  *)
(* ones, and of tiny addends by ordinary ones, are.  The `details` strings *)
(* of the breakdown entries, which no computation reads, are left out.     *)
(*                                                                         *)
(* State: inputs (the profile compute is applied to; in the component the  *)
(* `inputs` state), results (what compute returned; in the component the   *)
(* `results` state), raised (whether the call raised to its caller),       *)
(* phase, edits (how many changes have been made to inputs), memo (what    *)
(* useMemo holds of totalAnnualSpending) and history (in the component:    *)
(* the high-spender toggles as they were when the entry last went away;    *)
(* for a caller invoking compute repeatedly: the invocations so far).      *)
(***************************************************************************)
EXTENDS Integers, Sequences, FiniteSets, TLC

VARIABLES inputs, results, raised, phase, edits, memo, history

vars == <<inputs, results, raised, phase, edits, memo, history>>

----------------------------------------------------------------------------
(* Numbers *)

Scale == 100 * 100

\* Number.MAX_VALUE = 1.797693e308, in units of 1e302
MaxHuge == 17976 * 100 + 93

Fin(n) == [k |-> "fin", v |-> n]
Huge(n) == [k |-> "huge", v |-> n]
Tiny(n) == [k |-> "tiny", v |-> n]
NaN == [k |-> "nan", v |-> 0]
PInf == [k |-> "inf", v |-> 1]
NInf == [k |-> "inf", v |-> -1]

\* the number d (an integer literal of the source, or a whole amount)
N(d) == Fin(d * Scale)
\* d * 1e306
E306(d) == Huge(d * Scale)

Bool(b) == [k |-> "bool", v |-> IF b THEN 1 ELSE 0]
Null == [k |-> "null", v |-> 0]
Undefined == [k |-> "undef", v |-> 0]
Str == [k |-> "str", v |-> 0]

NumberKinds == {"fin", "huge", "tiny", "inf", "nan"}

\* typeof x
TypeOf(x) ==
  CASE x.k \in NumberKinds -> "number"
    [] x.k = "bool" -> "boolean"
    [] x.k = "undef" -> "undefined"
    [] x.k = "str" -> "string"
    [] OTHER -> "object"

\* ToBoolean: the truthiness `!x`, `x || y`, `x ? a : b` and `if (x)` use
Truthy(x) ==
  CASE x.k = "fin" -> x.v # 0
    [] x.k = "bool" -> x.v = 1
    [] x.k \in {"nan", "null", "undef"} -> FALSE
    [] OTHER -> TRUE

\* ToNumber: what arithmetic, Math.min/max, isNaN and comparisons apply
ToNumber(x) ==
  CASE x.k \in NumberKinds -> x
    [] x.k = "bool" -> N(x.v)
    [] x.k = "null" -> N(0)
    [] OTHER -> NaN

isNaN(x) == ToNumber(x).k = "nan"
isFinite(x) == ToNumber(x).k \in {"fin", "huge", "tiny"}

\* x || y
OrElse(x, y) == IF Truthy(x) THEN x ELSE y

Overflow(m) ==
  IF m > MaxHuge THEN PInf
  ELSE IF m < -MaxHuge THEN NInf
  ELSE IF m = 0 THEN Fin(0)
  ELSE Huge(m)

\* floor(v * p / q) without forming v * p
MulDiv(v, p, q) == (v \div q) * p + ((v % q) * p) \div q

\* a * (p / q) for a number a and a positive literal p / q
NumTimes(a, r) ==
  CASE a.k = "fin" -> Fin(MulDiv(a.v, r[1], r[2]))
    [] a.k = "huge" -> Overflow(MulDiv(a.v, r[1], r[2]))
    [] a.k = "tiny" -> Tiny(MulDiv(a.v, r[1], r[2]))
    [] OTHER -> a

\* a + b for numbers
NumPlus(a, b) ==
  CASE a.k = "fin" /\ b.k = "fin" -> Fin(a.v + b.v)
    [] a.k = "nan" \/ b.k = "nan" -> NaN
    [] a.k = "inf" /\ b.k = "inf" -> IF a.v = b.v THEN a ELSE NaN
    [] a.k = "inf" -> a
    [] b.k = "inf" -> b
    [] a.k = "huge" /\ b.k = "huge" -> Overflow(a.v + b.v)
    [] a.k = "huge" -> a
    [] b.k = "huge" -> b
    [] a.k = "tiny" /\ b.k = "tiny" -> IF a.v + b.v = 0 THEN Fin(0) ELSE Tiny(a.v + b.v)
    [] a.k = "tiny" -> IF b.v = 0 THEN a ELSE b
    [] b.k = "tiny" -> IF a.v = 0 THEN b ELSE a
    [] OTHER -> Fin(a.v + b.v)

NumNeg(a) == IF a.k = "nan" THEN a ELSE [k |-> a.k, v |-> 0 - a.v]

Sign(n) == IF n > 0 THEN 1 ELSE IF n < 0 THEN -1 ELSE 0

Tier(a) ==
  CASE a.k = "fin" -> Sign(a.v)
    [] a.k = "huge" -> 2 * Sign(a.v)
    [] a.k = "inf" -> 3 * a.v
    [] OTHER -> 0

NumLess(a, b) ==
  /\ a.k # "nan"
  /\ b.k # "nan"
  /\ \/ Tier(a) < Tier(b)
     \/ Tier(a) = Tier(b) /\ a.k # "inf" /\ a.v < b.v

\* the operators of the source, on any values
Times(x, r) == NumTimes(ToNumber(x), r)
Gt(x, y) == NumLess(ToNumber(y), ToNumber(x))
Gte(x, y) ==
  LET a == ToNumber(x)
      b == ToNumber(y)
  IN  a.k # "nan" /\ b.k # "nan" /\ ~NumLess(a, b)
Minus(x, y) == NumPlus(ToNumber(x), NumNeg(ToNumber(y)))

\* x + y: concatenation when an operand is a string, addition otherwise
Plus(x, y) ==
  IF x.k = "str" \/ y.k = "str" THEN Str
  ELSE NumPlus(ToNumber(x), ToNumber(y))

MathMin(x, y) ==
  LET a == ToNumber(x)
      b == ToNumber(y)
  IN  IF a.k = "nan" \/ b.k = "nan" THEN NaN
      ELSE IF NumLess(b, a) THEN b ELSE a

MathMax(x, y) ==
  LET a == ToNumber(x)
      b == ToNumber(y)
  IN  IF a.k = "nan" \/ b.k = "nan" THEN NaN
      ELSE IF NumLess(a, b) THEN b ELSE a

----------------------------------------------------------------------------
(* Constants of the source *)

\* the point values with the average priced at the minimum
POINT_VALUES_AvgAtMin == [min |-> <<15, 1000>>, max |-> <<20, 1000>>, avg |-> <<15, 1000>>]

POINT_VALUES == [min |-> <<15, 1000>>, max |-> <<20, 1000>>, avg |-> <<175, 10000>>]

\* the multipliers with dining spend costing points
MULTIPLIERS_DiningNegative ==
  [chaseTravel |-> <<8, 1>>, flightsHotels |-> <<4, 1>>,
   dining |-> <<-3, 1>>, otherSpending |-> <<1, 1>>]

MULTIPLIERS ==
  [chaseTravel |-> <<8, 1>>, flightsHotels |-> <<4, 1>>,
   dining |-> <<3, 1>>, otherSpending |-> <<1, 1>>]

AnnualFee == 795
HighSpenderThreshold == 75000

SpendingFields == {"chaseTravel", "flightsHotels", "dining", "otherSpending"}
CappedFields == {"travelCreditUsage", "diningCredit", "editStaysValue", "stubhubSpending"}
UsageFields == {"dashpassUsage", "lyftRides", "pelotonEquipment", "priorityPassVisits"}
HighSpenderToggles ==
  {"useShopsCredit", "useSouthwestCredit", "useIHGDiamond", "useSouthwestAList"}
ServiceToggles ==
  {"restaurantOrders", "nonRestaurantOrders", "pelotonMembership", "appleServices",
   "globalEntryValue"}
NumericFields == SpendingFields \cup CappedFields \cup UsageFields
BooleanFields == ServiceToggles \cup HighSpenderToggles
Fields == NumericFields \cup BooleanFields

\* an object with the own properties f
Obj(f) == [k |-> "obj", v |-> 0, fields |-> f]

\* useState(...) of inputs: the default profile
DefaultFields ==
  [f \in Fields |->
     CASE f \in {"travelCreditUsage", "diningCredit"} -> N(300)
       [] f = "dashpassUsage" -> N(12)
       [] f \in BooleanFields -> Bool(FALSE)
       [] OTHER -> N(0)]

DefaultInputs == Obj(DefaultFields)

\* useState(...) of results
InitialResults ==
  [totalValue |-> N(0), totalCost |-> N(AnnualFee), roi |-> N(0), minROI |-> N(0),
   maxROI |-> N(0), breakdown |-> <<>>]

----------------------------------------------------------------------------
(* validateInputs, isValidResults *)

\* inputs.key, a property read: undefined when the object has no such property
Get(obj, key) ==
  IF obj.k = "obj" /\ key \in DOMAIN obj.fields THEN obj.fields[key] ELSE Undefined

\* the value validateInputs stores for one property
SafeValue(value) ==
  IF TypeOf(value) = "number"
  THEN IF isNaN(value) \/ ~isFinite(value) THEN N(0) ELSE value
  ELSE IF TypeOf(value) = "boolean" THEN value
  ELSE N(0)

\* a block that ended by throwing: it has no value
Thrown == [thrown |-> TRUE, value |-> <<>>]

\* validateInputs(inputs): throws, or returns the object `safe`
validateInputs(inp) ==
  IF ~Truthy(inp) \/ TypeOf(inp) # "object"
  THEN Thrown
  ELSE [thrown |-> FALSE,
        value |-> Obj([key \in DOMAIN inp.fields |-> SafeValue(inp.fields[key])])]

requiredKeys == {"totalValue", "totalCost", "roi", "minROI", "maxROI", "breakdown"}

isValidResults(res) == \A key \in requiredKeys : key \in DOMAIN res

----------------------------------------------------------------------------
(* totalAnnualSpending, qualifiesForHighSpender (useMemo over the raw inputs) *)

totalAnnualSpending(inp) ==
  IF inp.k \in {"null", "undef"}
  THEN N(0)    \* reading a property of null throws; the catch returns 0
  ELSE LET total == Plus(Plus(Plus(Get(inp, "chaseTravel"), Get(inp, "flightsHotels")),
                              Get(inp, "dining")),
                         Get(inp, "otherSpending"))
       IN  IF isNaN(total) THEN N(0) ELSE total

\* the qualification with `>` for `>=`
qualifiesForHighSpender_Strict(inp) == Gt(totalAnnualSpending(inp), N(HighSpenderThreshold))

qualifiesForHighSpender(inp) == Gte(totalAnnualSpending(inp), N(HighSpenderThreshold))

----------------------------------------------------------------------------
(* calculateROI: the category values, over the object safeInputs *)

\* a decimal literal p / q of the source
Dec(p, q) == NumTimes(N(1), <<p, q>>)

totalPoints(safeInputs) ==
  NumPlus(NumPlus(NumPlus(Times(Get(safeInputs, "chaseTravel"), MULTIPLIERS.chaseTravel),
                          Times(Get(safeInputs, "flightsHotels"), MULTIPLIERS.flightsHotels)),
                  Times(Get(safeInputs, "dining"), MULTIPLIERS.dining)),
          Times(Get(safeInputs, "otherSpending"), MULTIPLIERS.otherSpending))

\* the clamp without its floor: Math.min(x || 0, cap)
Clamp_NoFloor(x, cap) == MathMin(OrElse(x, N(0)), N(cap))

\* Math.min(Math.max(x || 0, 0), cap)
Clamp(x, cap) == MathMin(MathMax(OrElse(x, N(0)), N(0)), N(cap))

travelCredit(safeInputs) == Clamp(Get(safeInputs, "travelCreditUsage"), 300)
diningCreditValue(safeInputs) == Clamp(Get(safeInputs, "diningCredit"), 300)
editCredit(safeInputs) == Clamp(Get(safeInputs, "editStaysValue"), 500)
stubhubCredit(safeInputs) == Clamp(Get(safeInputs, "stubhubSpending"), 300)

\* the DashPass value without the `|| 0` default and at 10 a month
dashpassValue_TenAMonth(safeInputs) == Times(Get(safeInputs, "dashpassUsage"), <<10, 1>>)

dashpassValue(safeInputs) ==
  Times(OrElse(Get(safeInputs, "dashpassUsage"), N(0)), <<999, 100>>)

restaurantCredits(safeInputs) ==
  Times(Times(IF Truthy(Get(safeInputs, "restaurantOrders")) THEN N(1) ELSE N(0),
              <<5, 1>>), <<12, 1>>)
nonRestaurantCredits(safeInputs) ==
  Times(Times(IF Truthy(Get(safeInputs, "nonRestaurantOrders")) THEN N(2) ELSE N(0),
              <<10, 1>>), <<12, 1>>)
totalDoorDashCredits(safeInputs) ==
  NumPlus(restaurantCredits(safeInputs), nonRestaurantCredits(safeInputs))

lyftCredits(safeInputs) ==
  MathMin(Times(OrElse(Get(safeInputs, "lyftRides"), N(0)), <<10, 1>>), N(120))
lyftBonusPoints(safeInputs) ==
  Times(Times(OrElse(Get(safeInputs, "lyftRides"), N(0)), <<20, 1>>), <<4, 1>>)
\* credits plus the bonus points priced at `rate`
lyftAt(safeInputs, rate) ==
  NumPlus(lyftCredits(safeInputs), Times(lyftBonusPoints(safeInputs), rate))
lyftTotal(safeInputs) == lyftAt(safeInputs, POINT_VALUES.avg)

\* the Peloton value with the equipment spend taken whole, without Math.min
pelotonValue_Uncapped(safeInputs) ==
  LET membership ==
        IF Truthy(Get(safeInputs, "pelotonMembership")) THEN NumPlus(N(0), N(120)) ELSE N(0)
      bonusPoints == Times(Get(safeInputs, "pelotonEquipment"), <<9, 1>>)
  IN  IF Gt(Get(safeInputs, "pelotonEquipment"), N(0))
      THEN NumPlus(membership, Times(bonusPoints, POINT_VALUES.avg))
      ELSE membership

pelotonValue(safeInputs) ==
  LET membership ==
        IF Truthy(Get(safeInputs, "pelotonMembership")) THEN NumPlus(N(0), N(120)) ELSE N(0)
      bonusPoints == Times(MathMin(Get(safeInputs, "pelotonEquipment"), N(5000)), <<9, 1>>)
  IN  IF Gt(Get(safeInputs, "pelotonEquipment"), N(0))
      THEN NumPlus(membership, Times(bonusPoints, POINT_VALUES.avg))
      ELSE membership

priorityPassValue(safeInputs) ==
  Times(OrElse(Get(safeInputs, "priorityPassVisits"), N(0)), <<35, 1>>)

globalEntryValue(safeInputs) ==
  IF Truthy(Get(safeInputs, "globalEntryValue")) THEN N(24) ELSE N(0)

appleServicesValue(safeInputs) ==
  IF Truthy(Get(safeInputs, "appleServices"))
  THEN Times(NumPlus(Dec(699, 100), Dec(1099, 100)), <<12, 1>>)
  ELSE N(0)

highSpenderValue(safeInputs, qualifies) ==
  LET add(sum, key, amount) ==
        IF Truthy(Get(safeInputs, key)) THEN NumPlus(sum, N(amount)) ELSE sum
  IN  IF qualifies
      THEN add(add(add(add(N(0), "useShopsCredit", 250), "useSouthwestCredit", 500),
                   "useIHGDiamond", 200), "useSouthwestAList", 150)
      ELSE N(0)

----------------------------------------------------------------------------
(* calculateROI: the breakdown *)

Entry(value, min, max) == [value |-> value, min |-> min, max |-> max]

\* an entry whose band is value * lo .. value * hi
Band(value, lo, hi) == Entry(value, Times(value, lo), Times(value, hi))

\* the keys of breakdown, in the order the source assigns them
CategoryOrder ==
  <<"points", "travelCredit", "diningCredit", "editCredit", "stubhubCredit", "dashpass",
    "doorDashCredits", "lyft", "peloton", "priorityPass", "globalEntry", "appleServices",
    "highSpender">>

Categories == {CategoryOrder[i] : i \in DOMAIN CategoryOrder}

AlwaysIncluded == {"points", "travelCredit", "diningCredit"}

\* the entry the source would assign under each key
entryOf(safeInputs, qualifies, c) ==
     CASE c = "points" ->
            Entry(Times(totalPoints(safeInputs), POINT_VALUES.avg),
                  Times(totalPoints(safeInputs), POINT_VALUES.min),
                  Times(totalPoints(safeInputs), POINT_VALUES.max))
       [] c = "travelCredit" -> Band(travelCredit(safeInputs), <<1, 1>>, <<1, 1>>)
       [] c = "diningCredit" -> Band(diningCreditValue(safeInputs), <<1, 1>>, <<1, 1>>)
       [] c = "editCredit" -> Band(editCredit(safeInputs), <<1, 1>>, <<1, 1>>)
       [] c = "stubhubCredit" -> Band(stubhubCredit(safeInputs), <<1, 1>>, <<1, 1>>)
       [] c = "dashpass" -> Band(dashpassValue(safeInputs), <<5, 10>>, <<1, 1>>)
       [] c = "doorDashCredits" -> Band(totalDoorDashCredits(safeInputs), <<7, 10>>, <<1, 1>>)
       [] c = "lyft" ->
            Entry(lyftTotal(safeInputs), lyftAt(safeInputs, POINT_VALUES.min),
                  lyftAt(safeInputs, POINT_VALUES.max))
       [] c = "peloton" -> Band(pelotonValue(safeInputs), <<8, 10>>, <<12, 10>>)
       [] c = "priorityPass" -> Band(priorityPassValue(safeInputs), <<5, 10>>, <<15, 10>>)
       [] c = "globalEntry" -> Band(globalEntryValue(safeInputs), <<1, 1>>, <<1, 1>>)
       [] c = "appleServices" -> Band(appleServicesValue(safeInputs), <<3, 10>>, <<1, 1>>)
       [] c = "highSpender" ->
            Band(highSpenderValue(safeInputs, qualifies), <<8, 10>>, <<12, 10>>)

\* the keys the source assigns: three always, the others `if (value > 0)`
includedKeys(safeInputs, qualifies) ==
  {c \in Categories :
     c \in AlwaysIncluded \/ Gt(entryOf(safeInputs, qualifies, c).value, N(0))}

breakdownOf(safeInputs, qualifies) ==
  [c \in includedKeys(safeInputs, qualifies) |-> entryOf(safeInputs, qualifies, c)]

\* the three reductions all reading benefit.value
reduceStep_ValueOnly(sum, benefit, field) ==
  LET value == OrElse(benefit.value, N(0))
  IN  NumPlus(sum, IF isNaN(value) THEN N(0) ELSE value)

\* one step of benefitValues.reduce: sum + (isNaN(value) ? 0 : value),
\* value = benefit?.[field] || 0
reduceStep(sum, benefit, field) ==
  LET value == OrElse(benefit[field], N(0))
  IN  NumPlus(sum, IF isNaN(value) THEN N(0) ELSE value)

RECURSIVE reduceFrom(_, _, _, _)
reduceFrom(i, sum, breakdown, field) ==
  IF i > Len(CategoryOrder) THEN sum
  ELSE reduceFrom(i + 1,
                  IF CategoryOrder[i] \in DOMAIN breakdown
                  THEN reduceStep(sum, breakdown[CategoryOrder[i]], field)
                  ELSE sum,
                  breakdown, field)

\* Object.values(breakdown).reduce(..., 0) over one field of the entries
reduceSum(breakdown, field) == reduceFrom(1, N(0), breakdown, field)

----------------------------------------------------------------------------
(* calculateROI: the percentages.  A percentage x is held as the number    *)
(* x * 795 / 100 (so that ((v - 795) / 795) * 100 is exact): -100 is held  *)
(* as -795 and 0 as 0.                                                     *)

Percent(x) == Fin(x * AnnualFee * (Scale \div 100))

\* (a / 795) * 100, as a percentage
OverFeeTimes100(a) == a

\* the percentage without the `v > 0` guard
roiOf_Unguarded(v) == OverFeeTimes100(Minus(v, N(AnnualFee)))

\* the percentage only for a value above the fee
roiOf_AboveFeeOnly(v) ==
  IF Gt(v, N(AnnualFee)) THEN OverFeeTimes100(Minus(v, N(AnnualFee))) ELSE Percent(-100)

\* v > 0 ? ((v - 795) / 795) * 100 : -100
roiOf(v) ==
  IF Gt(v, N(0)) THEN OverFeeTimes100(Minus(v, N(AnnualFee))) ELSE Percent(-100)

\* the catch block returning the component's initial results (roi 0, not -100)
FallbackResults_Initial == InitialResults

\* the object the catch block returns
FallbackResults ==
  [totalValue |-> N(0), totalCost |-> N(AnnualFee), roi |-> Percent(-100),
   minROI |-> Percent(-100), maxROI |-> Percent(-100), breakdown |-> <<>>]

\* isNaN(roi) ? -100 : roi
roiOrMinus100(roi) == IF isNaN(roi) THEN Percent(-100) ELSE roi

\* the object `results` the try block builds
resultsOf(totalValue, minValue, maxValue, breakdown) ==
  [totalValue |-> IF isNaN(totalValue) THEN N(0) ELSE totalValue,
   totalCost |-> N(AnnualFee),
   roi |-> roiOrMinus100(roiOf(totalValue)),
   minROI |-> roiOrMinus100(roiOf(minValue)),
   maxROI |-> roiOrMinus100(roiOf(maxValue)),
   breakdown |-> breakdown]

\* the aggregation of a breakdown into `results`
aggregate(breakdown) ==
  resultsOf(reduceSum(breakdown, "value"), reduceSum(breakdown, "min"),
            reduceSum(breakdown, "max"), breakdown)

\* if (!isValidResults(results)) throw ...; return results
returnValid(res) ==
  IF ~isValidResults(res) THEN Thrown ELSE [thrown |-> FALSE, value |-> res]

\* the try block after validateInputs has returned safeInputs
computeFrom(safeInputs, qualifies) ==
  IF isNaN(totalPoints(safeInputs)) \/ ~isFinite(totalPoints(safeInputs))
  THEN Thrown
  ELSE returnValid(aggregate(breakdownOf(safeInputs, qualifies)))

\* what validateInputs returned goes on to the rest of the try block
afterValidation(validated, qualifies) ==
  IF validated.thrown THEN Thrown ELSE computeFrom(validated.value, qualifies)

\* the try block: what it returns, or that it threw
tryBlock(inp, qualifies) == afterValidation(validateInputs(inp), qualifies)

\* the try block's outcome reaching the caller as it is, throw included
catchBlock_Rethrow(body) == [raised |-> body.thrown, value |-> body.value]

\* catch (error) { return fallback }: nothing is raised to the caller
catchBlock(body) ==
  IF body.thrown
  THEN [raised |-> FALSE, value |-> FallbackResults]
  ELSE [raised |-> FALSE, value |-> body.value]

\* calculateROI: try { ... } catch { ... }
calculateROI(inp, qualifies) == catchBlock(tryBlock(inp, qualifies))

\* the engine on a profile: calculateROI with the memoized qualification
compute(profile) == calculateROI(profile, qualifiesForHighSpender(profile))

----------------------------------------------------------------------------
(* The profiles compute is applied to *)

MaxEdits == 1

\* finite numbers near the top of the double range
Huge308 == E306(100)
Huge5e306 == E306(5)

\* 1e-300: a positive number that an addition to 795 does not notice
Tiny1e300 == Tiny(Scale)

\* values of no declared type, and the non-finite numbers
Unexpected == {NaN, PInf, Str, Null, Undefined}

\* the values tried for each property
ValuesOf(f) ==
  CASE f = "otherSpending" ->
         {N(74990), N(75000), N(-10), Huge308, NumNeg(Huge308), Bool(TRUE)} \cup Unexpected
    [] f \in SpendingFields ->
         {N(9), N(10), N(-10), Huge308, NumNeg(Huge308), NInf, Bool(TRUE)} \cup Unexpected
    [] f \in CappedFields ->
         {N(0), N(150), N(1000), N(-10), Huge308, PInf, Bool(TRUE), NaN, Str}
    [] f = "dashpassUsage" -> {N(0), N(6), N(13), N(-1), Huge308, Tiny1e300, Str}
    [] f = "lyftRides" -> {N(5), N(20), N(-3), Huge308, PInf}
    [] f = "pelotonEquipment" -> {N(1000), N(5000), N(9000), N(-5), Bool(TRUE), Huge308}
    [] f = "priorityPassVisits" -> {N(4), N(-2), Huge5e306, Huge308, Undefined}
    [] OTHER -> {Bool(TRUE), Bool(FALSE), N(1), N(0), Str, Null}

\* the object with property f set to x, and with property f deleted
WithField(obj, f, x) ==
  Obj([g \in DOMAIN obj.fields \cup {f} |-> IF g = f THEN x ELSE obj.fields[g]])
WithoutField(obj, f) ==
  Obj([g \in DOMAIN obj.fields \ {f} |-> obj.fields[g]])

\* a high spender with every toggle on: 74990 + 10 = 75000
HighSpenderInputs ==
  Obj([f \in Fields |->
         CASE f = "otherSpending" -> N(74990)
           [] f = "dining" -> N(10)
           [] f \in BooleanFields -> Bool(TRUE)
           [] OTHER -> DefaultFields[f]])

\* a cardholder who spends nothing and uses no benefit
UnusedInputs ==
  Obj([f \in Fields |-> IF f \in BooleanFields THEN Bool(FALSE) ELSE N(0)])

ObjectProfiles == {DefaultInputs, HighSpenderInputs, UnusedInputs, Obj(<<>>)}

NonObjects == {Null, Undefined, N(5), NaN, Str, Bool(TRUE), Bool(FALSE)}

Profiles == ObjectProfiles \cup NonObjects

----------------------------------------------------------------------------
(* compute as a function of its argument: the caller builds a profile,     *)
(* property by property, and applies compute to it                         *)

\* nothing memoized yet, nothing recorded
NoMemo == [deps |-> <<>>, total |-> N(0)]
NoHistory == <<>>

InitCompute ==
  /\ inputs \in Profiles
  /\ results = InitialResults
  /\ raised = FALSE
  /\ phase = "input"
  /\ edits = 0
  /\ memo = NoMemo
  /\ history = NoHistory

\* the caller sets a property of the profile
SetField(f, x) ==
  /\ phase = "input"
  /\ inputs.k = "obj"
  /\ edits < MaxEdits
  /\ inputs' = WithField(inputs, f, x)
  /\ edits' = edits + 1
  /\ UNCHANGED <<results, raised, phase, memo, history>>

\* the caller leaves a property out
OmitField(f) ==
  /\ phase = "input"
  /\ inputs.k = "obj"
  /\ f \in DOMAIN inputs.fields
  /\ edits < MaxEdits
  /\ inputs' = WithoutField(inputs, f)
  /\ edits' = edits + 1
  /\ UNCHANGED <<results, raised, phase, memo, history>>

\* the call's outcome: the value returned, and whether it raised
Returns(returned) ==
  /\ results' = returned.value
  /\ raised' = returned.raised

\* results = compute(inputs)
Compute ==
  /\ phase = "input"
  /\ Returns(compute(inputs))
  /\ phase' = "returned"
  /\ UNCHANGED <<inputs, edits, memo, history>>

NextCompute ==
  \/ \E f \in Fields : \E x \in ValuesOf(f) : SetField(f, x)
  \/ \E f \in Fields : OmitField(f)
  \/ Compute

SpecCompute == InitCompute /\ [][NextCompute]_vars

\* the same, for a caller who sets spending fields only
NextSpending ==
  \/ \E f \in SpendingFields : \E x \in ValuesOf(f) : SetField(f, x)
  \/ Compute

SpecSpending == InitCompute /\ [][NextSpending]_vars

Returned == phase = "returned"

----------------------------------------------------------------------------
(* The component: the text typed into its inputs.  A text is "", a word,   *)
(* or a numeral: a sign, whole digits and a rest, one of "", ".5", "e308". *)

EmptyText == [kind |-> "empty", sign |-> 1, whole |-> 0, rest |-> ""]
Word(w) == [kind |-> "word", sign |-> 1, whole |-> 0, rest |-> w]
Numeral(sign, whole, rest) == [kind |-> "numeral", sign |-> sign, whole |-> whole, rest |-> rest]

\* Number(text): "" is 0, "Infinity" is Infinity, any other word NaN, and a
\* numeral its value, fraction and exponent included
NumberOf(text) ==
  CASE text.kind = "empty" -> N(0)
    [] text.kind = "word" -> IF text.rest = "Infinity" THEN PInf ELSE NaN
    [] text.rest = ".5" -> Dec(text.sign * (text.whole * 10 + 5), 10)
    [] text.rest = "e308" -> Overflow(text.sign * text.whole * 100 * Scale)
    [] OTHER -> N(text.sign * text.whole)

\* parseInt(text): the leading whole numeral, NaN when there is none
parseInt(text) ==
  IF text.kind = "numeral" THEN N(text.sign * text.whole) ELSE NaN

\* item.max of the travel and services items (0: the item has none)
itemMax(key) ==
  CASE key \in {"travelCreditUsage", "diningCredit"} -> 300
    [] key = "dashpassUsage" -> 12
    [] OTHER -> 0

TravelItems ==
  {"travelCreditUsage", "diningCredit", "editStaysValue", "stubhubSpending",
   "priorityPassVisits"}
ServiceItems == {"dashpassUsage", "lyftRides", "pelotonEquipment"}

\* item.max ? Math.min(item.max, value) : value
atMostMax(key, value) ==
  IF itemMax(key) # 0 THEN MathMin(N(itemMax(key)), value) ELSE value

\* what the travel inputs' onChange passes on: parseInt(text) || 0
travelValue(key, text) == atMostMax(key, OrElse(parseInt(text), N(0)))

\* what the services inputs' onChange passes on: Number(text) || 0
serviceValue(key, text) == atMostMax(key, OrElse(NumberOf(text), N(0)))

\* handleInputChange with a spending edit below 75000 clearing the toggles
handleInputChange_ClearsToggles(prev, field, value) ==
  LET next == WithField(prev, field,
                        IF field \in SpendingFields
                        THEN IF isNaN(NumberOf(value)) THEN N(0) ELSE NumberOf(value)
                        ELSE value)
  IN  IF field \in SpendingFields /\ ~qualifiesForHighSpender(next)
      THEN Obj([f \in DOMAIN next.fields |->
                  IF f \in HighSpenderToggles THEN Bool(FALSE) ELSE next.fields[f]])
      ELSE next

\* handleInputChange(field, value): the next `inputs`; the value of a
\* spending field is the text typed, which goes through Number, NaN as 0
handleInputChange(prev, field, value) ==
  WithField(prev, field,
            IF field \in SpendingFields
            THEN IF isNaN(NumberOf(value)) THEN N(0) ELSE NumberOf(value)
            ELSE value)

----------------------------------------------------------------------------
(* The component: rendering and the effect *)

\* the dependency array of the useMemo of totalAnnualSpending
spendingDeps(inp) ==
  <<Get(inp, "chaseTravel"), Get(inp, "flightsHotels"), Get(inp, "dining"),
    Get(inp, "otherSpending")>>

\* useMemo at a render: the memoized total is kept while the dependencies
\* are the same, and computed again when one has changed
useMemo(prev, inp) ==
  IF prev.deps = spendingDeps(inp) THEN prev
  ELSE [deps |-> spendingDeps(inp), total |-> totalAnnualSpending(inp)]

\* qualifiesForHighSpender as the render holds it
memoizedQualifies(m) == Gte(m.total, N(HighSpenderThreshold))

\* the object passed to validateInputs after the call, had validateInputs
\* stored the sanitized values in it
argumentAfter_Sanitized(inp) ==
  IF validateInputs(inp).thrown THEN inp ELSE validateInputs(inp).value

\* the object passed to validateInputs after the call: values are stored
\* in the new object `safe`, and nothing is written to the argument
argumentAfter(inp) == inp

\* setResults keeping the entries of the previous breakdown that the new
\* one does not have
effectResults_Merged(prev, returned) ==
  [returned.value EXCEPT
     !.breakdown = [c \in DOMAIN prev.breakdown \cup DOMAIN returned.value.breakdown |->
                      IF c \in DOMAIN returned.value.breakdown
                      THEN returned.value.breakdown[c]
                      ELSE prev.breakdown[c]]]

\* the effect's setResults: the new results replace the previous ones; had
\* calculateROI raised, the effect's own catch would set the fallback
effectResults(prev, returned) ==
  IF returned.raised THEN FallbackResults ELSE returned.value

HighSpenderTogglesOf(inp) == [t \in HighSpenderToggles |-> inp.fields[t]]

\* history: no highSpender entry has been shown since the last click on a
\* high-spender benefit
NothingShown ==
  [shown |-> FALSE, toggles |-> [t \in HighSpenderToggles |-> Bool(FALSE)],
   dropped |-> FALSE]

\* history after results have been set: the toggles as they were when the
\* highSpender entry was first shown, and whether spend has since dropped
\* below the threshold, the entry going away
recorded(prev, inp, res) ==
  IF "highSpender" \in DOMAIN res.breakdown
  THEN IF prev.shown THEN prev
       ELSE [shown |-> TRUE, toggles |-> HighSpenderTogglesOf(inp), dropped |-> FALSE]
  ELSE IF prev.shown /\ ~qualifiesForHighSpender(inp)
       THEN [prev EXCEPT !.dropped = TRUE]
       ELSE prev

MaxChanges == 4

\* the texts typed into each input
TextsFor(key) ==
  CASE key = "otherSpending" ->
         {Numeral(1, 75000, ""), Numeral(1, 74990, ""), Word("Infinity")}
    [] key = "chaseTravel" -> {Numeral(1, 1, "e308"), Numeral(-1, 10, "")}
    [] key = "flightsHotels" -> {Word("abc")}
    [] key = "dining" -> {Numeral(1, 10, ""), EmptyText}
    [] key = "travelCreditUsage" -> {Numeral(1, 1000, ""), Numeral(-1, 10, "")}
    [] key = "diningCredit" -> {Word("abc")}
    [] key = "editStaysValue" -> {Numeral(1, 1000, "")}
    [] key = "stubhubSpending" -> {Numeral(1, 12, ".5")}
    [] key = "priorityPassVisits" -> {Numeral(1, 1, "e308")}
    [] key = "dashpassUsage" -> {Numeral(1, 13, ""), Numeral(-1, 1, "")}
    [] key = "lyftRides" -> {Numeral(1, 5, ""), Word("Infinity")}
    [] key = "pelotonEquipment" -> {Numeral(1, 9000, "")}

\* the component after mounting: the first render done, its effect due
Init ==
  /\ inputs = DefaultInputs
  /\ results = InitialResults
  /\ raised = FALSE
  /\ phase = "pending"
  /\ edits = 0
  /\ memo = useMemo(NoMemo, DefaultInputs)
  /\ history = NothingShown

\* setInputs(next) and the render that follows: the effect becomes due
SetInputs(next) ==
  /\ phase = "idle"
  /\ edits < MaxChanges
  /\ inputs' = next
  /\ memo' = useMemo(memo, next)
  /\ phase' = "pending"
  /\ edits' = edits + 1
  /\ UNCHANGED <<results, raised>>

\* text typed into one of the four spending inputs
TypeSpending(key, text) ==
  /\ SetInputs(handleInputChange(inputs, key, text))
  /\ UNCHANGED history

\* text typed into one of the travel benefit inputs
TypeTravel(key, text) ==
  /\ SetInputs(handleInputChange(inputs, key, travelValue(key, text)))
  /\ UNCHANGED history

\* text typed into one of the services inputs
TypeService(key, text) ==
  /\ SetInputs(handleInputChange(inputs, key, serviceValue(key, text)))
  /\ UNCHANGED history

\* a click on a service checkbox or on Global Entry
ToggleService(key) ==
  /\ SetInputs(handleInputChange(inputs, key, Bool(~Truthy(inputs.fields[key]))))
  /\ UNCHANGED history

\* a click on a high-spender benefit: the panel is rendered only when
\* qualifiesForHighSpender
ToggleHighSpender(key) ==
  /\ memoizedQualifies(memo)
  /\ SetInputs(handleInputChange(inputs, key, Bool(~Truthy(inputs.fields[key]))))
  /\ history' = NothingShown

\* useEffect(..., [calculateROI]): setResults(calculateROI())
Recompute ==
  /\ phase = "pending"
  /\ results' = effectResults(results, calculateROI(inputs, memoizedQualifies(memo)))
  /\ raised' = FALSE
  /\ inputs' = argumentAfter(inputs)
  /\ history' = recorded(history, inputs, results')
  /\ phase' = "idle"
  /\ UNCHANGED <<edits, memo>>

Next ==
  \/ \E key \in SpendingFields : \E text \in TextsFor(key) : TypeSpending(key, text)
  \/ \E key \in TravelItems : \E text \in TextsFor(key) : TypeTravel(key, text)
  \/ \E key \in ServiceItems : \E text \in TextsFor(key) : TypeService(key, text)
  \/ \E key \in ServiceToggles : ToggleService(key)
  \/ \E key \in HighSpenderToggles : ToggleHighSpender(key)
  \/ Recompute

Spec == Init /\ [][Next]_vars

Idle == phase = "idle"

----------------------------------------------------------------------------
(* compute invoked again and again: a caller passes one profile after      *)
(* another to the same calculateROI, whose qualification is memoized from  *)
(* one invocation to the next.  (null and undefined are left to the single *)
(* call above: the dependency array cannot be read off them.)              *)

MaxCalls == 4

CallProfiles ==
  {DefaultInputs, HighSpenderInputs, Obj(<<>>),
   WithField(HighSpenderInputs, "otherSpending", N(-10)),
   WithField(DefaultInputs, "chaseTravel", Huge308),
   WithField(DefaultInputs, "dining", PInf),
   WithField(HighSpenderInputs, "lyftRides", Str),
   N(5), NaN, Str, Bool(TRUE)}

InitCalls ==
  /\ inputs \in CallProfiles
  /\ results = InitialResults
  /\ raised = FALSE
  /\ phase = "input"
  /\ edits = 0
  /\ memo = NoMemo
  /\ history = NoHistory

\* the caller passes the next profile
Pass(profile) ==
  /\ phase = "returned"
  /\ edits < MaxCalls
  /\ inputs' = profile
  /\ phase' = "input"
  /\ UNCHANGED <<results, raised, edits, memo, history>>

\* one invocation: the memoized total is brought up to date as at a render,
\* calculateROI runs, and the invocation is recorded in history
Invoke ==
  /\ phase = "input"
  /\ memo' = useMemo(memo, inputs)
  /\ Returns(calculateROI(inputs, memoizedQualifies(useMemo(memo, inputs))))
  /\ inputs' = argumentAfter(inputs)
  /\ history' = Append(history, [profile |-> inputs, after |-> inputs', result |-> results'])
  /\ edits' = edits + 1
  /\ phase' = "returned"

NextCalls ==
  \/ \E profile \in CallProfiles : Pass(profile)
  \/ Invoke

SpecCalls == InitCalls /\ [][NextCalls]_vars

----------------------------------------------------------------------------
(* What the claims are stated with *)

\* the sum of one field over the entries of a breakdown, in key order
RECURSIVE SumFrom(_, _, _, _)
SumFrom(i, sum, breakdown, field) ==
  IF i > Len(CategoryOrder) THEN sum
  ELSE SumFrom(i + 1,
               IF CategoryOrder[i] \in DOMAIN breakdown
               THEN NumPlus(sum, breakdown[CategoryOrder[i]][field])
               ELSE sum,
               breakdown, field)

SumOf(breakdown, field) == SumFrom(1, N(0), breakdown, field)

\* total > 0 ? (total - 795) / 795 * 100 : -100
RoiFormula(total) ==
  IF Gt(total, N(0)) THEN OverFeeTimes100(Minus(total, N(795))) ELSE Percent(-100)

\* {totalValue:0, totalCost:795, roi:-100, minROI:-100, maxROI:-100, breakdown:{}}
ZeroValueFallback ==
  [totalValue |-> N(0), totalCost |-> N(795), roi |-> Percent(-100),
   minROI |-> Percent(-100), maxROI |-> Percent(-100), breakdown |-> <<>>]

\* the try block of calculateROI threw on the current inputs
BodyThrew == tryBlock(inputs, qualifiesForHighSpender(inputs)).thrown

----------------------------------------------------------------------------
(* C1: for every input (object, non-object, null, object with missing or   *)
(* wrongly typed fields) compute does not raise to its caller and returns  *)
(* an object with the six fields totalValue, totalCost, roi, minROI,       *)
(* maxROI and breakdown, with totalCost = 795.                             *)

C1_NeverRaises ==
  Returned =>
    /\ ~raised
    /\ {"totalValue", "totalCost", "roi", "minROI", "maxROI", "breakdown"}
         \subseteq DOMAIN results
    /\ results.totalCost = N(795)

\* an object whose try block threw, and compute returned
C1_Witness == Returned /\ inputs.k = "obj" /\ BodyThrew /\ ~raised

----------------------------------------------------------------------------
(* C2: in every returned ResultSet totalValue is the sum of value over the *)
(* breakdown's entries, and the sums minROI and maxROI are derived from    *)
(* are the sums of min and of max over the same entries.                   *)

C2_TotalsAreSums ==
  Returned =>
    /\ results.totalValue = SumOf(results.breakdown, "value")
    /\ reduceSum(results.breakdown, "min") = SumOf(results.breakdown, "min")
    /\ reduceSum(results.breakdown, "max") = SumOf(results.breakdown, "max")
    /\ results.minROI = RoiFormula(SumOf(results.breakdown, "min"))
    /\ results.maxROI = RoiFormula(SumOf(results.breakdown, "max"))

\* a computed result with at least five entries, one of them with a proper band
C2_Witness ==
  /\ Returned
  /\ Cardinality(DOMAIN results.breakdown) >= 5
  /\ \E c \in DOMAIN results.breakdown :
       /\ NumLess(results.breakdown[c].min, results.breakdown[c].value)
       /\ NumLess(results.breakdown[c].value, results.breakdown[c].max)

----------------------------------------------------------------------------
(* C3: in every returned ResultSet roi = (totalValue - 795) / 795 * 100    *)
(* when totalValue > 0 and -100 otherwise, computed from the reported      *)
(* totalValue; minROI and maxROI are the same formula of the summed min    *)
(* and the summed max.                                                     *)

C3_RoiFormula ==
  Returned =>
    /\ results.roi = RoiFormula(results.totalValue)
    /\ results.minROI = RoiFormula(SumOf(results.breakdown, "min"))
    /\ results.maxROI = RoiFormula(SumOf(results.breakdown, "max"))

\* a computed result whose total is negative: the guard decides roi
C3_Witness ==
  /\ Returned
  /\ DOMAIN results.breakdown # {}
  /\ NumLess(results.totalValue, N(0))
  /\ results.roi = Percent(-100)

----------------------------------------------------------------------------
(* C7: for a malformed input (null, undefined, any non-object) compute     *)
(* returns exactly the fallback: totalValue 0, totalCost 795, roi, minROI  *)
(* and maxROI -100, breakdown empty.                                       *)

C7_MalformedGivesFallback ==
  (Returned /\ inputs.k # "obj") => results = ZeroValueFallback

\* a number was given as the profile, and compute returned
C7_Witness == Returned /\ inputs = N(5) /\ results.roi = Percent(-100)

----------------------------------------------------------------------------
(* C4: the breakdown has a highSpender entry only when the total spend     *)
(* chaseTravel + flightsHotels + dining + otherSpending, as the engine     *)
(* values those fields after sanitization, is at least 75000.              *)

\* the four spending fields as validateInputs leaves them, added up
SanitizedSpend(inp) ==
  LET safe == validateInputs(inp).value
  IN  NumPlus(NumPlus(NumPlus(ToNumber(Get(safe, "chaseTravel")),
                              ToNumber(Get(safe, "flightsHotels"))),
                      ToNumber(Get(safe, "dining"))),
              ToNumber(Get(safe, "otherSpending")))

C4_GatedBySanitizedSpend ==
  (Returned /\ "highSpender" \in DOMAIN results.breakdown) =>
    Gte(SanitizedSpend(inputs), N(75000))

----------------------------------------------------------------------------
(* C5: when total spend is at least 75000 (75000 itself qualifies),        *)
(* highSpender.value is the sum of the flat amounts of the toggles that    *)
(* are on (250, 500, 200, 150) with min = 0.8 * value, max = 1.2 * value,  *)
(* and there is no highSpender entry when no toggle is on.                 *)

\* every field present and of its declared type: finite numbers, booleans
WellTyped(inp) ==
  /\ inp.k = "obj"
  /\ DOMAIN inp.fields = Fields
  /\ \A f \in NumericFields : inp.fields[f].k \in {"fin", "huge", "tiny"}
  /\ \A f \in BooleanFields : inp.fields[f].k = "bool"

TotalSpend(inp) ==
  NumPlus(NumPlus(NumPlus(inp.fields.chaseTravel, inp.fields.flightsHotels),
                  inp.fields.dining),
          inp.fields.otherSpending)

PointsTotal(inp) ==
  NumPlus(NumPlus(NumPlus(NumTimes(inp.fields.chaseTravel, <<8, 1>>),
                          NumTimes(inp.fields.flightsHotels, <<4, 1>>)),
                  NumTimes(inp.fields.dining, <<3, 1>>)),
          inp.fields.otherSpending)

ToggleSum(inp) ==
  (IF inp.fields.useShopsCredit = Bool(TRUE) THEN 250 ELSE 0)
    + (IF inp.fields.useSouthwestCredit = Bool(TRUE) THEN 500 ELSE 0)
    + (IF inp.fields.useIHGDiamond = Bool(TRUE) THEN 200 ELSE 0)
    + (IF inp.fields.useSouthwestAList = Bool(TRUE) THEN 150 ELSE 0)

HighSpenderAsToggled ==
  LET sum == ToggleSum(inputs)
  IN  IF sum = 0 THEN "highSpender" \notin DOMAIN results.breakdown
      ELSE /\ "highSpender" \in DOMAIN results.breakdown
           /\ results.breakdown.highSpender =
                [value |-> N(sum), min |-> NumTimes(N(sum), <<8, 10>>),
                 max |-> NumTimes(N(sum), <<12, 10>>)]

\* C5 as stated: for every well-typed profile whose spend is at least 75000
C5_AsStated ==
  (Returned /\ WellTyped(inputs) /\ Gte(TotalSpend(inputs), N(75000))) =>
    HighSpenderAsToggled

\* C5 amended: ... and whose points total is finite (otherwise the result is
\* the fallback, with no highSpender entry)
C5_HighSpenderValue ==
  (/\ Returned
   /\ WellTyped(inputs)
   /\ Gte(TotalSpend(inputs), N(75000))
   /\ isFinite(PointsTotal(inputs))) =>
    HighSpenderAsToggled

\* spend of exactly 75000 with three of the four toggles on
C5_Witness ==
  /\ Returned
  /\ WellTyped(inputs)
  /\ TotalSpend(inputs) = N(75000)
  /\ ToggleSum(inputs) \in {600, 850, 900, 950}
  /\ "highSpender" \in DOMAIN results.breakdown

----------------------------------------------------------------------------
(* C6: for the default profile the breakdown has exactly the keys points   *)
(* (value 0), travelCredit (300) and diningCredit (300), totalValue = 600  *)
(* and roi = (600 - 795) / 795 * 100.                                      *)

C6_AsStated ==
  (Returned /\ inputs = DefaultInputs) =>
    /\ DOMAIN results.breakdown = {"points", "travelCredit", "diningCredit"}
    /\ results.breakdown.points.value = N(0)
    /\ results.breakdown.travelCredit.value = N(300)
    /\ results.breakdown.diningCredit.value = N(300)
    /\ results.totalValue = N(600)
    /\ results.roi = OverFeeTimes100(Minus(N(600), N(795)))

\* C6 amended: the default dashpassUsage = 12 adds a dashpass entry of
\* 12 * 9.99 = 119.88 (band 59.94 .. 119.88): four keys, totalValue = 719.88,
\* roi = (719.88 - 795) / 795 * 100
C6_DefaultProfile ==
  (Returned /\ inputs = DefaultInputs) =>
    /\ DOMAIN results.breakdown = {"points", "travelCredit", "diningCredit", "dashpass"}
    /\ results.breakdown.points.value = N(0)
    /\ results.breakdown.travelCredit.value = N(300)
    /\ results.breakdown.diningCredit.value = N(300)
    /\ results.breakdown.dashpass =
         [value |-> Dec(11988, 100), min |-> Dec(5994, 100), max |-> Dec(11988, 100)]
    /\ results.totalValue = Dec(71988, 100)
    /\ results.roi = OverFeeTimes100(Minus(Dec(71988, 100), N(795)))

\* compute has returned for the default profile
C6_Witness ==
  /\ Returned
  /\ inputs = DefaultInputs
  /\ results.totalValue # N(0)

----------------------------------------------------------------------------
(* C8: all numeric outputs of compute (totalValue, roi, minROI, maxROI,    *)
(* every entry's value, min and max) are finite; a NaN or infinite         *)
(* intermediate makes the whole result the zero-value fallback.            *)

C8_OutputsFinite ==
  Returned =>
    /\ isFinite(results.totalValue)
    /\ isFinite(results.roi)
    /\ isFinite(results.minROI)
    /\ isFinite(results.maxROI)
    /\ \A c \in DOMAIN results.breakdown :
         /\ isFinite(results.breakdown[c].value)
         /\ isFinite(results.breakdown[c].min)
         /\ isFinite(results.breakdown[c].max)

----------------------------------------------------------------------------
(* C9: a field whose value is not of its declared type counts as that      *)
(* type's zero: a numeric field holding a non-number, NaN or an infinity   *)
(* (or a boolean) as 0, a boolean field holding a non-boolean (such as a   *)
(* non-zero number) as false.                                              *)

\* the value of field f coerced to f's declared type
AsDeclared(f, x) ==
  IF f \in NumericFields
  THEN IF x.k \in {"fin", "huge", "tiny"} THEN x ELSE N(0)
  ELSE IF x.k = "bool" THEN x ELSE Bool(FALSE)

Coerced(inp) == Obj([f \in DOMAIN inp.fields |-> AsDeclared(f, inp.fields[f])])

C9_WrongTypeIsZero ==
  (Returned /\ inputs.k = "obj" /\ DOMAIN inputs.fields = Fields) =>
    results = compute(Coerced(inputs)).value

----------------------------------------------------------------------------
(* C10: every field is optional: a profile object that omits fields is     *)
(* evaluated as if each absent numeric field were 0 and each absent        *)
(* boolean field false, giving a computed result with the points entry,    *)
(* not the fallback.                                                       *)

WithDefaults(inp) ==
  Obj([f \in Fields |->
         IF f \in DOMAIN inp.fields THEN inp.fields[f]
         ELSE IF f \in NumericFields THEN N(0) ELSE Bool(FALSE)])

C10_AbsentIsZero ==
  (Returned /\ inputs.k = "obj") =>
    /\ results = compute(WithDefaults(inputs)).value
    /\ WellTyped(WithDefaults(inputs)) /\ isFinite(PointsTotal(WithDefaults(inputs)))
         => "points" \in DOMAIN results.breakdown

----------------------------------------------------------------------------
(* C11: increasing any single spending field (chaseTravel, flightsHotels,  *)
(* dining or otherSpending) while every other field of the profile is held *)
(* fixed never decreases the points.value that compute reports.            *)

FiniteNumber(x) == x.k \in {"fin", "huge", "tiny"}

\* the current profile with spending field f raised to x, a larger number
Raised(f, x) ==
  /\ inputs.k = "obj"
  /\ TypeOf(Get(inputs, f)) = "number"
  /\ TypeOf(x) = "number"
  /\ NumLess(Get(inputs, f), x)

HasPoints(res) == "points" \in DOMAIN res.breakdown

\* res reports a points.value that is not below the current one
PointsNotLower(res) ==
  ~NumLess(res.breakdown.points.value, results.breakdown.points.value)

\* res reports a points.value, and one not below the current one
PointsStay(res) == HasPoints(res) /\ PointsNotLower(res)

\* C11 as stated: whatever points.value is reported stays reported, and
\* does not go down
C11_AsStated ==
  (Returned /\ HasPoints(results)) =>
    \A f \in SpendingFields : \A x \in ValuesOf(f) :
      Raised(f, x) => PointsStay(compute(WithField(inputs, f, x)).value)

\* res reports no points.value, or one that is not below the current one
PointsKept(res) == HasPoints(res) => PointsNotLower(res)

\* C11 amended: from a finite number to a larger finite number, and with a
\* points entry reported for both profiles (the points total of neither
\* overflows), points.value does not go down
C11_PointsMonotone ==
  (Returned /\ HasPoints(results)) =>
    \A f \in SpendingFields : \A x \in ValuesOf(f) :
      (/\ Raised(f, x)
       /\ FiniteNumber(Get(inputs, f))
       /\ FiniteNumber(x)) =>
        PointsKept(compute(WithField(inputs, f, x)).value)

\* a spending field can be raised, and points.value then goes up
C11_Witness ==
  /\ Returned
  /\ HasPoints(results)
  /\ \E f \in SpendingFields : \E x \in ValuesOf(f) :
       /\ Raised(f, x)
       /\ FiniteNumber(Get(inputs, f))
       /\ FiniteNumber(x)
       /\ HasPoints(compute(WithField(inputs, f, x)).value)
       /\ NumLess(results.breakdown.points.value,
                  compute(WithField(inputs, f, x)).value.breakdown.points.value)

----------------------------------------------------------------------------
(* C12: for every numeric input the four fixed-credit values are the input *)
(* clamped to its cap, with min = max = value: travelCredit and            *)
(* diningCredit lie in [0,300], editCredit in [0,500] and stubhubCredit in *)
(* [0,300]; an input above the cap yields exactly the cap and a negative   *)
(* input yields 0.  (A NaN or infinite input counts as 0; editCredit and   *)
(* stubhubCredit have an entry only when the value is above 0.)            *)

FixedCredits == {"travelCredit", "diningCredit", "editCredit", "stubhubCredit"}

CreditField(c) ==
  CASE c = "travelCredit" -> "travelCreditUsage"
    [] c = "diningCredit" -> "diningCredit"
    [] c = "editCredit" -> "editStaysValue"
    [] c = "stubhubCredit" -> "stubhubSpending"

CreditCap(c) == IF c = "editCredit" THEN 500 ELSE 300

\* x clamped to [0, cap]; a number that is not finite counts as 0
ClampTo(x, cap) ==
  IF ~FiniteNumber(x) \/ NumLess(x, N(0)) THEN N(0)
  ELSE IF NumLess(N(cap), x) THEN N(cap) ELSE x

\* breakdown reports `amount` under key c: as an exact band, or, for the
\* keys that are not always present, by having no entry when amount is 0
Reports(breakdown, c, amount) ==
  IF c \in DOMAIN breakdown
  THEN /\ breakdown[c] = [value |-> amount, min |-> amount, max |-> amount]
       /\ c \in {"travelCredit", "diningCredit"} \/ amount # N(0)
  ELSE c \in {"editCredit", "stubhubCredit"} /\ amount = N(0)

C12_FixedCredits ==
  (Returned /\ HasPoints(results)) =>
    \A c \in FixedCredits :
      TypeOf(Get(inputs, CreditField(c))) = "number" =>
        /\ Reports(results.breakdown, c,
                   ClampTo(Get(inputs, CreditField(c)), CreditCap(c)))
        /\ c \in DOMAIN results.breakdown =>
             /\ ~NumLess(results.breakdown[c].value, N(0))
             /\ ~NumLess(N(CreditCap(c)), results.breakdown[c].value)

\* editStaysValue = 1000, above its cap, gave an editCredit of exactly 500
C12_Witness ==
  /\ Returned
  /\ Get(inputs, "editStaysValue") = N(1000)
  /\ "editCredit" \in DOMAIN results.breakdown
  /\ results.breakdown.editCredit.value = N(500)

----------------------------------------------------------------------------
(* C13: the peloton value is 120 if pelotonMembership is on, plus          *)
(* min(pelotonEquipment, 5000) * 9 bonus points priced at 0.0175 when      *)
(* pelotonEquipment > 0, so any equipment spend above 5000 yields the same *)
(* value as 5000; the band is [0.8 * value, 1.2 * value] and the entry is  *)
(* present only when value > 0.                                            *)

\* a number as the engine takes it: one that is not finite counts as 0
FiniteOrZero(x) == IF FiniteNumber(x) THEN x ELSE N(0)

\* min(equipment, 5000) * 9 points at 0.0175 when equipment > 0
EquipmentBonus(equipment) ==
  IF NumLess(N(0), equipment)
  THEN NumTimes(NumTimes(IF NumLess(N(5000), equipment) THEN N(5000) ELSE equipment,
                         <<9, 1>>),
                <<175, 10000>>)
  ELSE N(0)

PelotonExpected(inp) ==
  NumPlus(IF Get(inp, "pelotonMembership") = Bool(TRUE) THEN N(120) ELSE N(0),
          EquipmentBonus(FiniteOrZero(Get(inp, "pelotonEquipment"))))

\* breakdown has the entry `value` with band [lo * value, hi * value] under
\* key c when value > 0, and no entry under c otherwise
ReportsBand(breakdown, c, value, lo, hi) ==
  IF NumLess(N(0), value)
  THEN /\ c \in DOMAIN breakdown
       /\ breakdown[c] =
            [value |-> value, min |-> NumTimes(value, lo), max |-> NumTimes(value, hi)]
  ELSE c \notin DOMAIN breakdown

PelotonTyped(inp) ==
  /\ inp.k = "obj"
  /\ TypeOf(Get(inp, "pelotonMembership")) = "boolean"
  /\ TypeOf(Get(inp, "pelotonEquipment")) = "number"

C13_Peloton ==
  (Returned /\ HasPoints(results) /\ PelotonTyped(inputs)) =>
    /\ ReportsBand(results.breakdown, "peloton", PelotonExpected(inputs),
                   <<8, 10>>, <<12, 10>>)
    /\ (/\ FiniteNumber(Get(inputs, "pelotonEquipment"))
        /\ NumLess(N(5000), Get(inputs, "pelotonEquipment"))) =>
         /\ "peloton" \in DOMAIN results.breakdown
         /\ results.breakdown.peloton =
              compute(WithField(inputs, "pelotonEquipment", N(5000))).value.breakdown.peloton

\* membership on and 9000 of equipment: 120 + 5000 * 9 * 0.0175 = 907.5
C13_Witness ==
  /\ Returned
  /\ Get(inputs, "pelotonMembership") = Bool(TRUE)
  /\ Get(inputs, "pelotonEquipment") = N(9000)
  /\ "peloton" \in DOMAIN results.breakdown
  /\ results.breakdown.peloton.value = Dec(9075, 10)

----------------------------------------------------------------------------
(* C14: compute treats dashpassUsage as a month count clamped to [0,12]:   *)
(* for every input the dashpass value equals clamp(dashpassUsage, 0, 12)   *)
(* * 9.99 and so never exceeds 12 * 9.99, with band [0.5 * value, value]   *)
(* and the entry present only when value > 0.                              *)

C14_DashpassClamped ==
  (Returned /\ HasPoints(results) /\ TypeOf(Get(inputs, "dashpassUsage")) = "number") =>
    /\ ReportsBand(results.breakdown, "dashpass",
                   NumTimes(ClampTo(Get(inputs, "dashpassUsage"), 12), <<999, 100>>),
                   <<5, 10>>, <<1, 1>>)
    /\ "dashpass" \in DOMAIN results.breakdown =>
         ~NumLess(NumTimes(N(12), <<999, 100>>), results.breakdown.dashpass.value)

----------------------------------------------------------------------------
(* C15: in every non-fallback result the keys points, travelCredit and     *)
(* diningCredit are present even when their value is 0, and every other    *)
(* category key is present if and only if its computed value is strictly   *)
(* greater than 0; no entry with a zero or negative value appears apart    *)
(* from the three always-present ones at 0.                                *)

\* the value the engine computes for category c on profile inp
ComputedValue(inp, c) ==
  entryOf(validateInputs(inp).value, qualifiesForHighSpender(inp), c).value

\* the three keys are there, and each other key is there iff its value > 0
PresentIffPositive ==
  /\ {"points", "travelCredit", "diningCredit"} \subseteq DOMAIN results.breakdown
  /\ \A c \in Categories \ {"points", "travelCredit", "diningCredit"} :
       c \in DOMAIN results.breakdown <=> NumLess(N(0), ComputedValue(inputs, c))

\* an entry is above 0, or is one of the three at exactly 0
NoneBelowZero ==
  \A c \in DOMAIN results.breakdown :
    \/ NumLess(N(0), results.breakdown[c].value)
    \/ c \in {"points", "travelCredit", "diningCredit"} /\ results.breakdown[c].value = N(0)

C15_PresenceRule ==
  (Returned /\ results # ZeroValueFallback) => PresentIffPositive /\ NoneBelowZero

----------------------------------------------------------------------------
(* C16: for every profile with finite spending fields, totalPoints =       *)
(* chaseTravel * 8 + flightsHotels * 4 + dining * 3 + otherSpending * 1    *)
(* and the points entry has value = totalPoints * 0.0175, min =            *)
(* totalPoints * 0.015 and max = totalPoints * 0.020.                      *)

SpendingFinite(inp) ==
  /\ inp.k = "obj"
  /\ \A f \in SpendingFields : FiniteNumber(Get(inp, f))

PointsEntryAsStated ==
  /\ HasPoints(results)
  /\ results.breakdown.points =
       [value |-> NumTimes(PointsTotal(inputs), <<175, 10000>>),
        min |-> NumTimes(PointsTotal(inputs), <<15, 1000>>),
        max |-> NumTimes(PointsTotal(inputs), <<20, 1000>>)]

\* C16 as stated: for every profile whose spending fields are finite
C16_AsStated == (Returned /\ SpendingFinite(inputs)) => PointsEntryAsStated

\* C16 amended: ... and whose points total is finite (a total that
\* overflows gives the fallback, which has no points entry)
C16_PointsEntry ==
  (Returned /\ SpendingFinite(inputs) /\ isFinite(PointsTotal(inputs))) =>
    PointsEntryAsStated

\* two spending fields set: 10 * 3 + 74990 = 75020 points, worth 1312.85
C16_Witness ==
  /\ Returned
  /\ SpendingFinite(inputs)
  /\ Get(inputs, "dining") = N(10)
  /\ Get(inputs, "otherSpending") = N(74990)
  /\ HasPoints(results)
  /\ results.breakdown.points.value = Dec(131285, 100)

----------------------------------------------------------------------------
(* C17: after any sequence of field edits through handleInputChange, once  *)
(* the recomputation triggered by the last edit has run, the results state *)
(* of the component equals compute applied to the current inputs, in full: *)
(* no field of an earlier result survives, no stale result is left.        *)

C17_ResultsCurrent == Idle => results = compute(inputs).value

\* two edits have brought inputs back to the defaults, through a profile
\* whose result had other entries, and the effect has run
C17_Witness ==
  /\ Idle
  /\ edits = 2
  /\ inputs = DefaultInputs
  /\ DOMAIN results.breakdown = {"points", "travelCredit", "diningCredit", "dashpass"}

----------------------------------------------------------------------------
(* C18: editing spending fields never changes the four high-spender        *)
(* toggles: if toggles are set while total spend is at least 75000, spend  *)
(* then drops below 75000 (highSpender disappears from the breakdown) and  *)
(* later rises to at least 75000 again, the highSpender entry reappears    *)
(* with the value of the same toggles, no toggle having been reset.        *)

\* the toggles are as they were when the highSpender entry was shown
TogglesAsShown == history.shown => HighSpenderTogglesOf(inputs) = history.toggles

\* the highSpender entry is there, with the value of the toggles recorded
ReappearsAsShown ==
  /\ "highSpender" \in DOMAIN results.breakdown
  /\ results.breakdown.highSpender =
       [value |-> N(ToggleSum([fields |-> history.toggles])),
        min |-> NumTimes(N(ToggleSum([fields |-> history.toggles])), <<8, 10>>),
        max |-> NumTimes(N(ToggleSum([fields |-> history.toggles])), <<12, 10>>)]

\* the entry was shown, spend dropped, and spend is at least 75000 again
RoseAgain ==
  /\ Idle
  /\ history.shown
  /\ history.dropped
  /\ Gte(TotalSpend(inputs), N(75000))

\* C18 as stated
C18_AsStated == TogglesAsShown /\ (RoseAgain => ReappearsAsShown)

\* C18 amended: the entry reappears when spend is at least 75000 again and
\* the points total is finite (a total that overflows gives the fallback)
C18_TogglesSurvive ==
  TogglesAsShown /\ (RoseAgain /\ isFinite(PointsTotal(inputs)) => ReappearsAsShown)

\* the entry has reappeared after a drop below the threshold
C18_Witness ==
  /\ RoseAgain
  /\ isFinite(PointsTotal(inputs))
  /\ ToggleSum(inputs) > 0
  /\ ReappearsAsShown

----------------------------------------------------------------------------
(* C19: after any sequence of user edits made through the input handlers,  *)
(* every capped numeric field of inputs lies within its cap range:         *)
(* travelCreditUsage, diningCredit and stubhubSpending in [0,300],         *)
(* editStaysValue in [0,500], dashpassUsage in [0,12] and pelotonEquipment *)
(* in [0,5000].                                                            *)

Within(x, lo, hi) == x.k \in NumberKinds /\ ~NumLess(x, N(lo)) /\ ~NumLess(N(hi), x)

C19_FieldsWithinCaps ==
  /\ Within(inputs.fields.travelCreditUsage, 0, 300)
  /\ Within(inputs.fields.diningCredit, 0, 300)
  /\ Within(inputs.fields.stubhubSpending, 0, 300)
  /\ Within(inputs.fields.editStaysValue, 0, 500)
  /\ Within(inputs.fields.dashpassUsage, 0, 12)
  /\ Within(inputs.fields.pelotonEquipment, 0, 5000)

----------------------------------------------------------------------------
(* C20: compute is side-effect-free and keeps no state between             *)
(* invocations: it leaves the profile it is given unchanged, and two       *)
(* invocations on equal profiles return equal results, whatever other      *)
(* invocations (failing ones included) happened in between.                *)

C20_Repeatable ==
  \A i \in DOMAIN history :
    /\ history[i].after = history[i].profile
    /\ \A j \in DOMAIN history :
         history[j].profile = history[i].profile => history[j].result = history[i].result

\* a profile computed, a failing invocation on another, the first again
C20_Witness ==
  /\ Len(history) >= 3
  /\ history[1].profile = history[3].profile
  /\ history[1].result # ZeroValueFallback
  /\ history[2].profile # history[1].profile
  /\ history[2].result = ZeroValueFallback
  /\ history[3].result = history[1].result

----------------------------------------------------------------------------
(* C21: for every input profile reachable through the input handlers       *)
(* (negative numbers typed into a spending field included), every          *)
(* breakdown entry returned by compute satisfies min <= value <= max, and  *)
(* the result satisfies minROI <= roi <= maxROI.                           *)

\* a <= b <= c
Ordered(a, b, c) == ~NumLess(b, a) /\ ~NumLess(c, b)

C21_BandsOrdered ==
  Idle =>
    /\ \A c \in DOMAIN results.breakdown :
         Ordered(results.breakdown[c].min, results.breakdown[c].value,
                 results.breakdown[c].max)
    /\ Ordered(results.minROI, results.roi, results.maxROI)

----------------------------------------------------------------------------
(* C22: roi, minROI and maxROI returned by compute are each at least -100, *)
(* and each is -100 exactly when the sum it is computed from (the summed   *)
(* value, min or max of the breakdown) is less than or equal to 0.         *)

\* x <= 0
NotPositive(x) == Gte(N(0), x)

\* x - 795 === -795: 795 does not notice x
LostIn795(x) == Minus(x, N(795)) = N(-795)

AtLeastMinus100(roi) == Gte(roi, Percent(-100))

\* at least -100, and -100 exactly when the sum is <= 0
FloorAsStated(roi, sum) ==
  /\ AtLeastMinus100(roi)
  /\ (roi = Percent(-100)) <=> NotPositive(sum)

C22_AsStated ==
  Returned =>
    /\ FloorAsStated(results.roi, SumOf(results.breakdown, "value"))
    /\ FloorAsStated(results.minROI, SumOf(results.breakdown, "min"))
    /\ FloorAsStated(results.maxROI, SumOf(results.breakdown, "max"))

\* at least -100; -100 when the sum is <= 0; above -100 when the sum is
\* positive and large enough for sum - 795 to differ from -795
FloorKept(roi, sum) ==
  /\ AtLeastMinus100(roi)
  /\ NotPositive(sum) => roi = Percent(-100)
  /\ Gt(sum, N(0)) /\ ~LostIn795(sum) => Gt(roi, Percent(-100))

(* C22, amended: each of roi, minROI and maxROI is at least -100, is -100  *)
(* when its sum is less than or equal to 0, and is above -100 when its sum *)
(* is positive, unless the sum is so small that sum - 795 is -795 in       *)
(* double arithmetic, where the percentage is -100 as well.                *)
C22_RoiFloor ==
  Returned =>
    /\ FloorKept(results.roi, SumOf(results.breakdown, "value"))
    /\ FloorKept(results.minROI, SumOf(results.breakdown, "min"))
    /\ FloorKept(results.maxROI, SumOf(results.breakdown, "max"))

\* a call returned a breakdown that sums to less than 0, and roi is -100
C22_Witness ==
  /\ Returned
  /\ NumLess(SumOf(results.breakdown, "value"), N(0))
  /\ NumLess(SumOf(results.breakdown, "max"), N(0))
  /\ results.roi = Percent(-100)
  /\ results.maxROI = Percent(-100)

----------------------------------------------------------------------------
(* C23: every value the component holds in its results state, from the     *)
(* initial state before the first recomputation onward, has roi, minROI    *)
(* and maxROI equal to -100 whenever its totalValue is 0, and is either    *)
(* the fallback or the output of compute for a profile the component has   *)
(* held.                                                                   *)

\* roi, minROI and maxROI are -100 when totalValue is 0
Minus100AtZero(res) ==
  res.totalValue = N(0) =>
    /\ res.roi = Percent(-100)
    /\ res.minROI = Percent(-100)
    /\ res.maxROI = Percent(-100)

\* an edit has been made whose recomputation has not run yet: results are
\* still those of the profile held before the edit
AwaitingRecompute == phase = "pending" /\ edits > 0

C23_ResultsHeld ==
  /\ Minus100AtZero(results)
  /\ \/ results = FallbackResults
     \/ results = compute(inputs).value
     \/ AwaitingRecompute

====
